---- MODULE Spec2Model ----
(***************************************************************************)
(* Model of onnx_tf/handlers/backend/dilated_maxpooling.py: the            *)
(* DilatedPooling object, its padding calculator, dilation reducer, index  *)
(* remappers and the two public operations dilated_maxpool and             *)
(* dilated_maxpool_with_argmax.                                            *)
(*                                                                         *)
(* Tensors are channels-last with a batch of one.  A tensor is a record    *)
(* [shape |-> <<1, d_1, .., d_R, C>>, data |-> row-major flat sequence].   *)
(* Flat positions are 0-based as in the source; data[f + 1] holds flat     *)
(* position f.  Only the fully-known-shape (numpy) branch is modelled.     *)
(***************************************************************************)
EXTENDS Integers, Sequences, FiniteSets, TLC

\* ---- bounds of the model -------------------------------------------------
MaxIn == 3
MaxKernel == 2
MaxStride == 2
MaxDilation == 2
MaxPad == 1
MaxChannels == 2
MaxCalls == 2

\* padding_constant of a MAX pooling: -inf, below every tensor value (>= 0)
padding_constant == 0 - 1

\* ---- integer helpers -----------------------------------------------------
Max2(a, b) == IF a >= b THEN a ELSE b

\* np.ceil(a / b) and np.floor(a / b) of true division, b > 0
CeilDiv(a, b) == 0 - ((0 - a) \div b)
FloorDiv(a, b) == a \div b

RECURSIVE Prod(_)
Prod(s) == IF Len(s) = 0 THEN 1 ELSE Head(s) * Prod(Tail(s))

Suffix(s, i) == SubSeq(s, i, Len(s))

\* row-major multi-index <-> flat position over dimensions dims
Unravel(f, dims) ==
  [i \in 1..Len(dims) |-> (f \div Prod(Suffix(dims, i + 1))) % dims[i]]

RECURSIVE RavelFrom(_, _, _)
RavelFrom(idx, dims, i) ==
  IF i > Len(dims) THEN 0
  ELSE idx[i] * Prod(Suffix(dims, i + 1)) + RavelFrom(idx, dims, i + 1)
Ravel(idx, dims) == RavelFrom(idx, dims, 1)

InRange(idx, dims) == \A i \in 1..Len(dims) : idx[i] >= 0 /\ idx[i] < dims[i]

SetMax(S) == CHOOSE m \in S : \A x \in S : x <= m
SetMin(S) == CHOOSE m \in S : \A x \in S : m <= x

AllOnes(s) == \A i \in 1..Len(s) : s[i] = 1
np_count_nonzero(s) == Cardinality({i \in 1..Len(s) : s[i] # 0})

\* ---- tensors -------------------------------------------------------------
\* spatial dims followed by the channel count (the batch of one dropped)
Dims(shape) == Suffix(shape, 2)
SpatialOf(shape) == SubSeq(shape, 2, Len(shape) - 1)
ChannelsOf(shape) == shape[Len(shape)]

\* _tf_shape(a) for a fully defined tensor
tf_shape(t) == t.shape

\* value of tensor t at the multi-index idx (spatial.., channel); a position
\* outside the tensor reads as padding
At(t, idx) ==
  IF InRange(idx, Dims(t.shape)) THEN t.data[Ravel(idx, Dims(t.shape)) + 1]
  ELSE padding_constant

\* tf.pad(input, [[0,0],[lo_1,hi_1],..,[0,0]], 'CONSTANT', padding_constant),
\* pads = <<lo_1, hi_1, .., lo_R, hi_R>>
tf_pad(t, pads) ==
  LET R == Len(t.shape) - 2
      nd == [i \in 1..(R + 1) |->
               IF i <= R THEN t.shape[i + 1] + pads[2 * i - 1] + pads[2 * i]
               ELSE ChannelsOf(t.shape)]
      src(f) == LET p == Unravel(f, nd)
                IN [i \in 1..(R + 1) |->
                      IF i <= R THEN p[i] - pads[2 * i - 1] ELSE p[i]]
  IN [shape |-> <<1>> \o nd,
      data |-> [n \in 1..Prod(nd) |-> At(t, src(n - 1))]]

\* ---- the host engine's pooling primitives --------------------------------
FilterSize(k, d) == (k - 1) * d + 1

\* output size of one axis under the engine's VALID and SAME modes
ValidOut(in, k, d, s) == FloorDiv(in - FilterSize(k, d), s) + 1
SameOut(in, s) == CeilDiv(in, s)
SameBefore(in, k, d, s) ==
  FloorDiv(Max2((SameOut(in, s) - 1) * s + FilterSize(k, d) - in, 0), 2)

\* a pooling window: output position o (spatial), window offset w (flat over
\* the kernel), giving the input position read
WindowPos(o, w, kernel, strides, dilations, before) ==
  LET j == Unravel(w, kernel)
  IN [i \in 1..Len(kernel) |->
        o[i] * strides[i] + j[i] * dilations[i] - before[i]]

\* Max pooling of t with window kernel, strides, dilations; mode is "VALID"
\* or "SAME".  Returns [ok, shape, data, ind]: ind[n] is the flat position in
\* t (row-major over spatial dims and channels) of the first maximum of the
\* window of output element n.
WindowPool(t, kernel, strides, dilations, mode) ==
  LET R == Len(kernel)
      in == SpatialOf(t.shape)
      C == ChannelsOf(t.shape)
      od == [i \in 1..R |->
               IF mode = "SAME" THEN SameOut(in[i], strides[i])
               ELSE ValidOut(in[i], kernel[i], dilations[i], strides[i])]
      before == [i \in 1..R |->
                   IF mode = "SAME"
                   THEN SameBefore(in[i], kernel[i], dilations[i], strides[i])
                   ELSE 0]
      odc == od \o <<C>>
      W == 0..(Prod(kernel) - 1)
      pos(n, w) ==
        LET oc == Unravel(n - 1, odc)
        IN WindowPos(SubSeq(oc, 1, R), w, kernel, strides, dilations, before)
           \o <<oc[R + 1]>>
      best(n) == SetMax({At(t, pos(n, w)) : w \in W})
      arg(n) == LET b == best(n) IN SetMin({w \in W : At(t, pos(n, w)) = b})
  IN IF mode \notin {"VALID", "SAME"} \/ Len(t.shape) # R + 2
        \/ \E i \in 1..R : od[i] <= 0
     THEN [ok |-> FALSE, shape |-> <<>>, data |-> <<>>, ind |-> <<>>]
     ELSE [ok |-> TRUE,
           shape |-> <<1>> \o odc,
           data |-> [n \in 1..Prod(odc) |-> best(n)],
           ind |-> [n \in 1..Prod(odc) |->
                      Ravel(pos(n, arg(n)), Dims(t.shape))]]

\* tf.nn.max_pool_with_argmax(input, ksize, strides, padding): 2-D, no
\* dilation
tf_nn_max_pool_with_argmax(t, ksize, strides, mode) ==
  WindowPool(t, ksize, strides, [i \in 1..Len(ksize) |-> 1], mode)

\* tf.nn.dilation2d(input, zero filter, strides, rates, padding)
tf_nn_dilation2d(t, kernel, strides, rates, mode) ==
  WindowPool(t, kernel, strides, rates, mode)

\* tf.nn.pool(input, window_shape, "MAX", padding, dilation_rate, strides):
\* the engine rejects strides > 1 together with dilation_rate > 1
tf_nn_pool(t, window_shape, strides, dilation_rate, mode) ==
  IF ~AllOnes(strides) /\ ~AllOnes(dilation_rate)
  THEN [ok |-> FALSE, shape |-> <<>>, data |-> <<>>, ind |-> <<>>]
  ELSE WindowPool(t, window_shape, strides, dilation_rate, mode)

\* ---- the DilatedPooling object -------------------------------------------
VARIABLES
  kernel_shape,      \* self.kernel_shape
  strides,           \* self.strides
  dilations,         \* self.dilations
  padding,           \* self.padding: [list |-> is it a list, mode, pads]
  ceil_mode,         \* self.ceil_mode
  orig_input_shape,  \* self.orig_input_shape
  input_shape,       \* self.input_shape
  input,             \* self.input
  pads,              \* self.pads        (meaningful once "pads" \in attrs)
  output_shape,      \* self.output_shape (meaningful once set)
  attrs,             \* attributes assigned outside __init__ so far
  x,                 \* the caller's tensor handed to __init__
  calls,             \* invocations of the public operations so far
  ret,               \* outcome of the last invocation
  first              \* outcome of the first invocation

vars == <<kernel_shape, strides, dilations, padding, ceil_mode,
          orig_input_shape, input_shape, input, pads, output_shape, attrs,
          x, calls, ret, first>>

config == <<kernel_shape, strides, dilations, padding, ceil_mode,
            orig_input_shape, x>>

spatial_size == Len(kernel_shape)

\* the mutable attributes of the object, threaded through the methods
Self == [input |-> input, input_shape |-> input_shape, pads |-> pads,
         output_shape |-> output_shape, attrs |-> attrs]

\* str.lower() on the padding modes of the model
Lower(m) ==
  CASE m = "VALID" -> "valid"
    [] m = "SAME_UPPER" -> "same_upper"
    [] m = "SAME_LOWER" -> "same_lower"
    [] OTHER -> "notset"
StartsWithSame(m) == Lower(m) \in {"same_upper", "same_lower"}

Zeros(n) == [i \in 1..n |-> 0]

\* variants of _calc_input_ind: the window step taken as s - k instead of
\* s - k * d; the window step taken as s without subtracting k * d
calc_input_ind_undilated(ind, k, d, s) == (ind \div k) * (s - k) + ind * d

calc_input_ind_overrun(ind, k, d, s) == (ind \div k) * s + ind * d

\* _calc_input_ind(ind, k, d, s)
calc_input_ind(ind, k, d, s) == (ind \div k) * (s - k * d) + ind * d

\* _calc_pads_same(in_spatial_shape): <<begin_1, end_1, .., begin_R, end_R>>
\* variants of _calc_pads_same for one axis: the filter extent taken without
\* the dilation; the odd unit of SAME_LOWER and SAME_UPPER exchanged
calc_pads_same_axis_undilated(in_size, k, d, s, mode) ==
  LET filter_size == k
      out_size == CeilDiv(in_size, s)
      pad_along_axis == Max2((out_size - 1) * s + filter_size - in_size, 0)
      pad_begin == IF Lower(mode) = "same_lower"
                   THEN CeilDiv(pad_along_axis, 2)
                   ELSE FloorDiv(pad_along_axis, 2)
  IN <<pad_begin, pad_along_axis - pad_begin>>

calc_pads_same_axis_swapped(in_size, k, d, s, mode) ==
  LET filter_size == (k - 1) * d + 1
      out_size == CeilDiv(in_size, s)
      pad_along_axis == Max2((out_size - 1) * s + filter_size - in_size, 0)
      pad_begin == IF Lower(mode) = "same_lower"
                   THEN FloorDiv(pad_along_axis, 2)
                   ELSE CeilDiv(pad_along_axis, 2)
  IN <<pad_begin, pad_along_axis - pad_begin>>

calc_pads_same_axis(in_size, k, d, s, mode) ==
  LET filter_size == (k - 1) * d + 1
      out_size == CeilDiv(in_size, s)
      pad_along_axis == Max2((out_size - 1) * s + filter_size - in_size, 0)
      pad_begin == IF Lower(mode) = "same_lower"
                   THEN CeilDiv(pad_along_axis, 2)
                   ELSE FloorDiv(pad_along_axis, 2)
  IN <<pad_begin, pad_along_axis - pad_begin>>

calc_pads_same(in_spatial_shape) ==
  [n \in 1..(2 * spatial_size) |->
     LET i == (n + 1) \div 2
     IN calc_pads_same_axis(in_spatial_shape[i], kernel_shape[i],
                            dilations[i], strides[i],
                            padding.mode)[2 - (n % 2)]]

\* _calc_pads_explicit(): padding[i + R] past the end of the list raises
calc_pads_explicit ==
  IF ~padding.list THEN [status |-> "AssertionError", pads |-> <<>>]
  ELSE IF Len(padding.pads) < 2 * spatial_size
  THEN [status |-> "IndexError", pads |-> <<>>]
  ELSE [status |-> "ok",
        pads |-> [n \in 1..(2 * spatial_size) |->
                    LET i == (n + 1) \div 2
                    IN IF n % 2 = 1 THEN padding.pads[i]
                       ELSE padding.pads[i + spatial_size]]]

\* _calc_pads_ceil_mode(in_spatial_shape)
calc_pads_ceil_mode(in_spatial_shape) ==
  [n \in 1..(2 * spatial_size) |->
     LET i == (n + 1) \div 2
         filter_size == (kernel_shape[i] - 1) * dilations[i] + 1
         pad_size == IF (in_spatial_shape[i] - filter_size) % strides[i] = 0
                     THEN 0 ELSE 1
     IN IF n % 2 = 1 THEN 0 ELSE pad_size * strides[i]]

SeqAdd(a, b) == [n \in 1..Len(a) |-> a[n] + b[n]]

\* _calc_pads(in_spatial_shape)
calc_pads(in_spatial_shape) ==
  LET z == Zeros(2 * spatial_size)
      e == calc_pads_explicit
      p1 == IF padding.list THEN SeqAdd(z, e.pads)
            ELSE IF StartsWithSame(padding.mode)
            THEN SeqAdd(z, calc_pads_same(in_spatial_shape))
            ELSE z
      new_spatial_shape == [i \in 1..spatial_size |->
                              in_spatial_shape[i] + p1[2 * i - 1] + p1[2 * i]]
  IN IF padding.list /\ e.status # "ok" THEN [status |-> e.status, pads |-> <<>>]
     ELSE IF ceil_mode /\ (padding.list \/ ~StartsWithSame(padding.mode))
     THEN [status |-> "ok",
           pads |-> SeqAdd(p1, calc_pads_ceil_mode(new_spatial_shape))]
     ELSE [status |-> "ok", pads |-> p1]

\* _pad_input(): [status, self]
pad_input(self) ==
  IF ~ceil_mode /\ ((padding.list /\ padding.pads = Zeros(2 * spatial_size))
                    \/ (~padding.list /\ padding.mode = "VALID"))
  THEN [status |-> "ok",
        self |-> [self EXCEPT !.pads = Zeros(2 * spatial_size),
                              !.attrs = @ \cup {"pads"}]]
  ELSE LET in_spatial_shape == SubSeq(self.input_shape, 2, spatial_size + 1)
           p == calc_pads(in_spatial_shape)
       IN IF p.status # "ok" THEN [status |-> p.status, self |-> self]
          ELSE IF np_count_nonzero(p.pads) = 0
          THEN [status |-> "ok",
                self |-> [self EXCEPT !.pads = p.pads,
                                      !.attrs = @ \cup {"pads"}]]
          ELSE LET padded == tf_pad(self.input, p.pads)
               IN [status |-> "ok",
                   self |-> [self EXCEPT !.input = padded,
                                         !.input_shape = tf_shape(padded),
                                         !.pads = p.pads,
                                         !.attrs = @ \cup {"pads"}]]

\* _tf_product(a, b): cartesian product of the rows of a with the vector b,
\* b in the leading column and varying slowest
tf_product(a, b) ==
  [n \in 1..(Len(a) * Len(b)) |->
     <<b[((n - 1) \div Len(a)) + 1]>> \o a[((n - 1) % Len(a)) + 1]]

\* tf.range(n)
tf_range(n) == [i \in 1..n |-> i - 1]

\* the loop of _reduce_dilations over dim = spatial_size - 1 .. 0 (dim is
\* 0-based): [output_shape, gather_ind]
RECURSIVE reduce_loop(_, _, _, _)
reduce_loop(dim, in_spatial_shape, out_shape, gather_ind) ==
  IF dim < 0 THEN [output_shape |-> out_shape, gather_ind |-> gather_ind]
  ELSE LET filter_size == (kernel_shape[dim + 1] - 1) * dilations[dim + 1] + 1
           output_size == (((in_spatial_shape[dim + 1] - filter_size)
                             \div strides[dim + 1]) + 1) * kernel_shape[dim + 1]
           local_ind == [i \in 1..output_size |->
                           calc_input_ind(tf_range(output_size)[i],
                                          kernel_shape[dim + 1],
                                          dilations[dim + 1],
                                          strides[dim + 1])]
       IN reduce_loop(dim - 1, in_spatial_shape,
                      out_shape \o <<output_size>>,
                      tf_product(gather_ind, local_ind))

\* tf.gather_nd(input, gather_ind, batch_dims=1) followed by
\* tf.reshape(output, output_shape): the gathered values keep their flat
\* order, the shape is the one recorded in output_shape
\* _reduce_dilations(): [ok, self, output]
reduce_dilations(self) ==
  LET in_shape == tf_shape(self.input)
      in_spatial_shape == SubSeq(in_shape, 2, spatial_size + 1)
      channel_num == in_shape[spatial_size + 2]
      l == reduce_loop(spatial_size - 1, in_spatial_shape, <<in_shape[1]>>,
                       [c \in 1..channel_num |-> <<c - 1>>])
      oshape == l.output_shape \o <<channel_num>>
      self2 == [self EXCEPT !.output_shape = oshape,
                            !.attrs = @ \cup {"output_shape"}]
  IN IF \E n \in 1..Len(l.gather_ind) :
          ~InRange(l.gather_ind[n], Dims(in_shape))
     THEN [ok |-> FALSE, self |-> self2, output |-> <<>>]
     ELSE [ok |-> TRUE, self |-> self2,
           output |-> [shape |-> oshape,
                       data |-> [n \in 1..Len(l.gather_ind) |->
                                   At(self.input, l.gather_ind[n])]]]

\* _calc_orig_ind(ind) for one index
calc_orig_ind(self, ind) ==
  LET in_width == orig_input_shape[3]
      num_channels == orig_input_shape[4]
      output_width == self.output_shape[3]
      ind_ == ind \div num_channels
      inRow == ind_ \div output_width
      inCol == ind_ - (ind_ \div output_width) * output_width
      ind_channel == ind - ind_ * num_channels
      row == calc_input_ind(inRow, kernel_shape[1], dilations[1], strides[1])
             - self.pads[1]
      col == calc_input_ind(inCol, kernel_shape[2], dilations[2], strides[2])
             - self.pads[3]
  IN num_channels * (row * in_width + col) + ind_channel

\* _calc_argmax_without_padding(ind) for one index
calc_argmax_without_padding(self, ind) ==
  LET in_width == orig_input_shape[3]
      padded_width == self.input_shape[3]
      num_channels == self.input_shape[4]
      ind_ == ind \div num_channels
      ind_channel == ind - ind_ * num_channels
      ind1 == (ind_ \div padded_width) * (self.pads[3] + self.pads[4])
      ind2 == ind_ - ind1 - self.pads[1] * in_width - self.pads[3]
  IN num_channels * ind2 + ind_channel

NoTensor == [shape |-> <<>>, data |-> <<>>]
Raise(self, status, strategy) ==
  [self |-> self,
   ret |-> [status |-> status, strategy |-> strategy,
            pooled |-> NoTensor, ind |-> <<>>]]
Return(self, strategy, pooled, ind) ==
  [self |-> self,
   ret |-> [status |-> "ok", strategy |-> strategy,
            pooled |-> [shape |-> pooled.shape, data |-> pooled.data],
            ind |-> ind]]

\* variant of dilated_maxpool_with_argmax: the rank is asserted only after
\* the input was padded
dilated_maxpool_with_argmax_late_assert(self, force_custom_impl) ==
  LET p == pad_input(self)
  IN IF p.status # "ok" THEN Raise(p.self, p.status, "none")
     ELSE Raise(p.self, "AssertionError", "none")

\* dilated_maxpool_with_argmax(force_custom_impl): [self, ret]
dilated_maxpool_with_argmax(self, force_custom_impl) ==
  IF spatial_size # 2 THEN Raise(self, "AssertionError", "none")
  ELSE IF ~AllOnes(dilations) \/ force_custom_impl
  THEN LET p == pad_input(self)
           r == reduce_dilations(p.self)
           pl == tf_nn_max_pool_with_argmax(r.output, kernel_shape,
                                            kernel_shape, "VALID")
       IN IF p.status # "ok" THEN Raise(p.self, p.status, "custom")
          ELSE IF ~r.ok THEN Raise(r.self, "EngineError", "custom")
          ELSE IF ~pl.ok THEN Raise(r.self, "EngineError", "custom")
          ELSE Return(r.self, "custom", pl,
                      [n \in 1..Len(pl.ind) |-> calc_orig_ind(r.self, pl.ind[n])])
  ELSE LET padit == padding.list \/ Lower(padding.mode) = "same_lower"
           p == IF padit THEN pad_input(self)
                ELSE [status |-> "ok", self |-> self]
           padding_ == IF padit THEN "VALID"
                       ELSE IF Lower(padding.mode) = "same_upper" THEN "SAME"
                       ELSE padding.mode
           pl == tf_nn_max_pool_with_argmax(p.self.input, kernel_shape,
                                            strides, padding_)
       IN IF p.status # "ok" THEN Raise(p.self, p.status, "native")
          ELSE IF ~pl.ok THEN Raise(p.self, "EngineError", "native")
          ELSE IF "pads" \notin p.self.attrs
          THEN Raise(p.self, "AttributeError", "native")
          ELSE IF np_count_nonzero(p.self.pads) # 0
          THEN Return(p.self, "native", pl,
                      [n \in 1..Len(pl.ind) |->
                         calc_argmax_without_padding(p.self, pl.ind[n])])
          ELSE Return(p.self, "native", pl, pl.ind)

\* dilated_maxpool(force_custom_impl): [self, ret]
dilated_maxpool(self, force_custom_impl) ==
  LET padit == padding.list \/ Lower(padding.mode) = "same_lower"
      p == IF padit THEN pad_input(self)
           ELSE [status |-> "ok", self |-> self]
      padding_ == IF padit THEN "VALID"
                  ELSE IF Lower(padding.mode) = "same_upper" THEN "SAME"
                  ELSE padding.mode
  IN IF p.status # "ok" THEN Raise(p.self, p.status, "none")
     ELSE IF spatial_size = 2 /\ ~force_custom_impl
     THEN LET pl == tf_nn_dilation2d(p.self.input, kernel_shape, strides,
                                     dilations, padding_)
          IN IF pl.ok THEN Return(p.self, "dilation2d", pl, <<>>)
             ELSE Raise(p.self, "EngineError", "dilation2d")
     ELSE IF AllOnes(strides) \/ (AllOnes(dilations) /\ ~force_custom_impl)
     THEN LET pl == tf_nn_pool(p.self.input, kernel_shape, strides,
                               dilations, padding_)
          IN IF pl.ok THEN Return(p.self, "pool", pl, <<>>)
             ELSE Raise(p.self, "EngineError", "pool")
     ELSE LET p2 == IF padding_ = "SAME" THEN pad_input(p.self)
                    ELSE [status |-> "ok", self |-> p.self]
              r == reduce_dilations(p2.self)
              pl == tf_nn_pool(r.output, kernel_shape, kernel_shape,
                               [i \in 1..spatial_size |-> 1], "VALID")
          IN IF p2.status # "ok" THEN Raise(p2.self, p2.status, "custom")
             ELSE IF ~r.ok THEN Raise(r.self, "EngineError", "custom")
             ELSE IF ~pl.ok THEN Raise(r.self, "EngineError", "custom")
             ELSE Return(r.self, "custom", pl, <<>>)

\* ---- construction --------------------------------------------------------
Modes == {"VALID", "SAME_UPPER", "SAME_LOWER", "NOTSET"}

StringPadding(m) == [list |-> FALSE, mode |-> m, pads |-> <<>>]
ListPadding(l) == [list |-> TRUE, mode |-> "", pads |-> l]

\* explicit padding lists of length n with entries in 0..MaxPad
PadLists(n) == [1..n -> 0..MaxPad]

NoReturn == [op |-> "none", force |-> FALSE, status |-> "none",
             strategy |-> "none", pooled |-> NoTensor, ind |-> <<>>]

\* the caller's tensor: distinct values, ascending or descending flat order
Tensor(in, C, rev) ==
  LET N == Prod(in) * C
  IN [shape |-> <<1>> \o in \o <<C>>,
      data |-> [n \in 1..N |-> IF rev THEN N - n ELSE n - 1]]

\* __init__(input, kernel_shape, strides, dilations, padding, ceil_mode) on
\* a tensor the effective filter fits.  Ranks, Paddings[R], Channels,
\* CeilModes and Revs are the sets the arguments are drawn from; with Iso
\* every axis has the same size, kernel, stride and dilation.
Isotropic(f) == \A i \in DOMAIN f : f[i] = f[1]

Construct(Ranks, Paddings, Channels, CeilModes, Revs, Iso) ==
  \E R \in Ranks :
  \E in \in [1..R -> 1..MaxIn], k \in [1..R -> 1..MaxKernel],
     s \in [1..R -> 1..MaxStride], d \in [1..R -> 1..MaxDilation],
     C \in Channels, pd \in Paddings[R], cm \in CeilModes, rev \in Revs :
    /\ \A i \in 1..R : in[i] >= FilterSize(k[i], d[i])
    /\ Iso => Isotropic(in) /\ Isotropic(k) /\ Isotropic(s) /\ Isotropic(d)
    /\ kernel_shape = k
    /\ strides = s
    /\ dilations = d
    /\ padding = pd
    /\ ceil_mode = cm
    /\ x = Tensor(in, C, rev)
    /\ orig_input_shape = tf_shape(x)
    /\ input_shape = orig_input_shape
    /\ input = x
    /\ pads = <<>>
    /\ output_shape = <<>>
    /\ attrs = {}
    /\ calls = 0
    /\ ret = NoReturn
    /\ first = NoReturn

\* ---- the public operations as actions ------------------------------------
Invoke(op, force, r) ==
  /\ calls < MaxCalls
  /\ input' = r.self.input
  /\ input_shape' = r.self.input_shape
  /\ pads' = r.self.pads
  /\ output_shape' = r.self.output_shape
  /\ attrs' = r.self.attrs
  /\ calls' = calls + 1
  /\ ret' = [op |-> op, force |-> force, status |-> r.ret.status,
             strategy |-> r.ret.strategy, pooled |-> r.ret.pooled,
             ind |-> r.ret.ind]
  /\ first' = IF calls = 0 THEN ret' ELSE first
  /\ UNCHANGED config

DilatedMaxpoolWithArgmax(force) ==
  Invoke("dilated_maxpool_with_argmax", force,
         dilated_maxpool_with_argmax(Self, force))

DilatedMaxpool(force) ==
  Invoke("dilated_maxpool", force, dilated_maxpool(Self, force))

\* ---- specifications ------------------------------------------------------
\* padding arguments: the three known modes, an unknown mode, well-formed
\* explicit lists, and lists one entry short or long
KnownModes(R) == {StringPadding(m) : m \in {"VALID", "SAME_UPPER", "SAME_LOWER"}}
SameModes(R) == {StringPadding(m) : m \in {"SAME_UPPER", "SAME_LOWER"}}
AnyMode(R) == {StringPadding(m) : m \in Modes}
\* explicit lists <<begin_1, .., begin_R, end_1, .., end_R>>: zero, uniform,
\* begin-only, and two that pad the axes differently
GoodLists(R) ==
  {ListPadding(Zeros(2 * R)),
   ListPadding([i \in 1..(2 * R) |-> MaxPad]),
   ListPadding([i \in 1..(2 * R) |-> IF i <= R THEN MaxPad ELSE 0]),
   ListPadding([i \in 1..(2 * R) |-> IF i % 2 = 1 THEN MaxPad ELSE 0]),
   ListPadding([i \in 1..(2 * R) |-> IF i % 2 = 0 THEN MaxPad ELSE 0])}
BadLists(R) ==
  {ListPadding([i \in 1..(2 * R - 1) |-> MaxPad]),
   ListPadding([i \in 1..(2 * R + 1) |-> MaxPad])}
ValidPaddings(R) == KnownModes(R) \cup GoodLists(R)
AllPaddings(R) == AnyMode(R) \cup GoodLists(R) \cup BadLists(R)

Once(A) == calls = 0 /\ A

\* Spec: objects of rank 1 to 3 with every kind of padding argument, both
\* operations, invoked repeatedly on the same object
Init ==
  Construct({1, 2, 3}, [R \in {1, 2, 3} |-> AllPaddings(R)], {1}, BOOLEAN,
            {FALSE}, TRUE)

Next ==
  \/ \E force \in BOOLEAN : DilatedMaxpoolWithArgmax(force)
  \/ \E force \in BOOLEAN : DilatedMaxpool(force)

Spec == Init /\ [][Next]_vars

\* SpecArgmax: one dilated_maxpool_with_argmax on a 2-D tensor of any
\* (non-square) size
InitArgmax ==
  Construct({2}, [R \in {2} |-> ValidPaddings(R)], 1..MaxChannels, BOOLEAN,
            BOOLEAN, FALSE)

NextArgmax == Once(\E force \in BOOLEAN : DilatedMaxpoolWithArgmax(force))

SpecArgmax == InitArgmax /\ [][NextArgmax]_vars

\* SpecPool: one dilated_maxpool on a tensor of rank 1 or 2 of any size, or
\* on a rank-3 cube
InitPool ==
  \/ Construct({1, 2}, [R \in {1, 2} |-> ValidPaddings(R)], 1..MaxChannels,
               BOOLEAN, BOOLEAN, FALSE)
  \/ Construct({3}, [R \in {3} |-> ValidPaddings(R)], {1}, BOOLEAN, {FALSE},
               TRUE)

NextPool == Once(\E force \in BOOLEAN : DilatedMaxpool(force))

SpecPool == InitPool /\ [][NextPool]_vars

\* SpecPads: one invocation of either operation with SAME_UPPER or
\* SAME_LOWER padding on a tensor of rank 1 or 2 of any size
InitPads ==
  Construct({1, 2}, [R \in {1, 2} |-> SameModes(R)], {1}, BOOLEAN, {FALSE},
            FALSE)

NextPads ==
  Once(\/ \E force \in BOOLEAN : DilatedMaxpoolWithArgmax(force)
       \/ \E force \in BOOLEAN : DilatedMaxpool(force))

SpecPads == InitPads /\ [][NextPads]_vars

\* SpecRank: a dilated_maxpool on a cube of rank 1 to 3, then
\* dilated_maxpool_with_argmax on the same object
RankPaddings(R) ==
  {StringPadding("VALID"), StringPadding("SAME_LOWER"),
   ListPadding([i \in 1..(2 * R) |-> MaxPad])}

InitRank ==
  Construct({1, 2, 3}, [R \in {1, 2, 3} |-> RankPaddings(R)], {1}, {FALSE},
            {FALSE}, TRUE)

NextRank ==
  \/ Once(\E force \in BOOLEAN : DilatedMaxpool(force))
  \/ \E force \in BOOLEAN : DilatedMaxpoolWithArgmax(force)

SpecRank == InitRank /\ [][NextRank]_vars

\* SpecReduce: one invocation of either operation with VALID or SAME_LOWER
\* padding, with and without ceil_mode, on a tensor of rank 1 or 2 of any size
ReducePaddings(R) == {StringPadding("VALID"), StringPadding("SAME_LOWER")}

InitReduce ==
  Construct({1, 2}, [R \in {1, 2} |-> ReducePaddings(R)], {1}, BOOLEAN,
            {FALSE}, FALSE)

NextReduce ==
  Once(\/ \E force \in BOOLEAN : DilatedMaxpoolWithArgmax(force)
       \/ \E force \in BOOLEAN : DilatedMaxpool(force))

SpecReduce == InitReduce /\ [][NextReduce]_vars

\* ---- claims ---------------------------------------------------------------
Returned(op) == ret.op = op /\ ret.status = "ok"
SquareReduced == output_shape[2] = output_shape[3]

\* reading the caller's tensor at every returned index gives the pooled value
RoundTrip ==
  \A n \in 1..Len(ret.pooled.data) :
    /\ ret.ind[n] >= 0
    /\ ret.ind[n] < Len(x.data)
    /\ x.data[ret.ind[n] + 1] = ret.pooled.data[n]

\* C1: index round-trip.  Whenever dilated_maxpool_with_argmax returns, on
\* any 2-D configuration (square or not, any padding, forced or not), the
\* caller's unpadded input read at each returned flattened index equals the
\* pooled value at that output position.
C1_IndexRoundTrip == Returned("dilated_maxpool_with_argmax") => RoundTrip

\* true dilated max pooling of tensor t with the object's kernel, strides and
\* dilations: out[o, c] = max over 0 <= j_i < kernel_i of
\* t[o_i * stride_i + j_i * dilation_i, c]
LawSize(in_size, i) ==
  ((in_size - ((kernel_shape[i] - 1) * dilations[i] + 1)) \div strides[i]) + 1

TrueDilatedPool(t) ==
  LET R == spatial_size
      od == [i \in 1..R |-> LawSize(t.shape[i + 1], i)] \o <<ChannelsOf(t.shape)>>
      J == {j \in [1..R -> 0..(MaxKernel - 1)] : \A i \in 1..R : j[i] < kernel_shape[i]}
      val(oc) == SetMax({At(t, [i \in 1..(R + 1) |->
                                  IF i <= R
                                  THEN oc[i] * strides[i] + j[i] * dilations[i]
                                  ELSE oc[i]]) : j \in J})
  IN [shape |-> <<1>> \o od,
      data |-> [n \in 1..Prod(od) |-> val(Unravel(n - 1, od))]]

\* C2: reduction equivalence.  Whenever dilated_maxpool takes the
\* dilation-reduction path, pooling the reduced tensor with window =
\* strides = kernel_shape and VALID padding returns, at every output
\* position, the true dilated max pooling of the (padded) input it reduced.
C2_ReductionEquivalence ==
  ret.op = "dilated_maxpool" /\ ret.strategy = "custom"
    => ret.status = "ok" /\ ret.pooled = TrueDilatedPool(input)

\* C3: shape law.  With VALID padding and ceil_mode false, dilated_maxpool
\* returns, on every strategy, spatial size
\* floor((in_size_i - ((kernel_i - 1) * dilation_i + 1)) / stride_i) + 1.
C3_ShapeLaw ==
  ret.op = "dilated_maxpool" /\ ~padding.list /\ padding.mode = "VALID"
  /\ ~ceil_mode
    => /\ ret.status = "ok"
       /\ SpatialOf(ret.pooled.shape)
            = [i \in 1..spatial_size |-> LawSize(orig_input_shape[i + 1], i)]

Called == ret.op # "none"
IsMode(m) == ~padding.list /\ padding.mode = m
IsSame == IsMode("SAME_UPPER") \/ IsMode("SAME_LOWER")
OrigSize(i) == orig_input_shape[i + 1]
Filter(i) == (kernel_shape[i] - 1) * dilations[i] + 1
\* ceil(a / b) as the least q with q * b >= a
Ceil(a, b) == (a + b - 1) \div b
\* the SAME total of the claim, before and after the clamp at 0
RawTotal(i) == (Ceil(OrigSize(i), strides[i]) - 1) * strides[i] + Filter(i) - OrigSize(i)
TotalPad(i) == IF RawTotal(i) > 0 THEN RawTotal(i) ELSE 0
EnginePadded == "pads" \in attrs

\* C4: SAME-size law.  With SAME_UPPER or SAME_LOWER, once the engine has
\* padded the input with the amounts of _calc_pads_same, a VALID pooling of
\* the padded input has spatial size ceil(in_size_i / stride_i) on every axis,
\* whatever the dilation and also when the total padding is clamped to 0; the
\* native VALID pooling of the padded input returns that size.
C4_SameSizeLaw ==
  Called /\ IsSame /\ EnginePadded
    => /\ \A i \in 1..spatial_size :
            LawSize(input_shape[i + 1], i) = Ceil(OrigSize(i), strides[i])
       /\ ret.strategy \in {"dilation2d", "pool", "native"}
            => /\ ret.status = "ok"
               /\ SpatialOf(ret.pooled.shape)
                    = [i \in 1..spatial_size |-> Ceil(OrigSize(i), strides[i])]

\* a SAME_LOWER call returned by a native VALID pooling of the padded input,
\* with a dilated axis that received padding and an axis whose total padding
\* was clamped to 0
C4_Witness ==
  /\ Returned("dilated_maxpool") /\ IsMode("SAME_LOWER") /\ EnginePadded
  /\ ret.strategy = "dilation2d"
  /\ \E i \in 1..spatial_size : dilations[i] > 1 /\ pads[2 * i] > 0
  /\ \E i \in 1..spatial_size : RawTotal(i) < 0 /\ pads[2 * i - 1] + pads[2 * i] = 0

\* C6: padding symmetry.  With SAME_LOWER or SAME_UPPER the pads of every
\* axis are non-negative and sum to
\* max((ceil(in / stride) - 1) * stride + filter - in, 0); SAME_LOWER puts
\* ceil(total / 2) at the beginning (the odd unit goes first), SAME_UPPER
\* floor(total / 2) (the odd unit goes last).
C6_PaddingSymmetry ==
  Called /\ IsSame /\ EnginePadded
    => \A i \in 1..spatial_size :
         LET begin == pads[2 * i - 1]
             end == pads[2 * i]
         IN /\ begin >= 0 /\ end >= 0
            /\ begin + end = TotalPad(i)
            /\ IsMode("SAME_LOWER") => begin = Ceil(TotalPad(i), 2) /\ begin - end = TotalPad(i) % 2
            /\ IsMode("SAME_UPPER") => begin = TotalPad(i) \div 2 /\ end - begin = TotalPad(i) % 2

\* an odd total under SAME_LOWER: the beginning is one larger than the end
C6_Witness ==
  /\ Called /\ IsMode("SAME_LOWER") /\ EnginePadded
  /\ \E i \in 1..spatial_size : TotalPad(i) % 2 = 1 /\ pads[2 * i - 1] = pads[2 * i] + 1

\* C5: ceil-mode boundary.  With VALID padding and ceil_mode true, a returned
\* call padded an axis only at its trailing end and only when
\* (in_size - filter_size) is not a multiple of the stride, and the output
\* size of every axis is ceil((in_size - filter_size) / stride) + 1.
C5_CeilModeBoundary ==
  Called /\ calls = 1 /\ ret.status = "ok" /\ IsMode("VALID") /\ ceil_mode
    => \A i \in 1..spatial_size :
         /\ SpatialOf(ret.pooled.shape)[i]
              = Ceil(OrigSize(i) - Filter(i), strides[i]) + 1
         /\ input_shape[i + 1] > OrigSize(i)
              <=> (OrigSize(i) - Filter(i)) % strides[i] # 0
         /\ EnginePadded => pads[2 * i - 1] = 0

\* C7: no state persists across calls.  A second invocation of the same
\* operation with the same arguments on the same object returns what the
\* first invocation returned.
C7_NoStateAcrossCalls ==
  calls = 2 /\ ret.op = first.op /\ ret.force = first.force => ret = first

\* C8: precondition violation.  dilated_maxpool_with_argmax on an object of
\* spatial rank other than 2 raises the assertion, returns nothing and
\* leaves input, input_shape, pads and output_shape as they were.
C8_RankPrecondition ==
  [][ret'.op = "dilated_maxpool_with_argmax" /\ calls' = calls + 1
     /\ spatial_size # 2
       => /\ ret'.status = "AssertionError"
          /\ ret'.pooled = NoTensor /\ ret'.ind = <<>>
          /\ UNCHANGED <<input, input_shape, pads, output_shape, attrs>>]_vars

\* the assertion raised on an object of rank other than 2 whose input an
\* earlier dilated_maxpool had already padded
C8_Witness ==
  /\ ret.op = "dilated_maxpool_with_argmax" /\ ret.status = "AssertionError"
  /\ spatial_size # 2 /\ calls = 2 /\ input # x /\ EnginePadded

\* C9: unknown padding mode.  With a padding string outside VALID,
\* SAME_UPPER, SAME_LOWER no invocation returns a result.
C9_UnknownModeFails ==
  Called /\ ~padding.list /\ padding.mode \notin {"VALID", "SAME_UPPER", "SAME_LOWER"}
    => ret.status # "ok"

\* C10: invalid explicit padding.  With an explicit list whose length is not
\* 2 * R the invocation fails while computing the pad amounts and no padded
\* tensor or result is produced.
C10_BadListFails ==
  Called /\ padding.list /\ Len(padding.pads) # 2 * spatial_size
    => ret.status # "ok" /\ input = x

\* C11: forced custom strategy.  Every dilated_maxpool called with
\* force_custom_impl = true, whatever the rank, strides and dilations (strides
\* all 1 included), takes the dilation-reduction strategy and invokes neither
\* native primitive on the input.
C11_ForcedCustom ==
  ret.op = "dilated_maxpool" /\ ret.force => ret.strategy = "custom"

\* C12: argmax without padding.  dilated_maxpool_with_argmax with all
\* dilations 1, not forced, and padding VALID or SAME_UPPER completes and
\* returns the native pooled tensor and the native indices unchanged.
C12_ArgmaxWithoutPadding ==
  (/\ ret.op = "dilated_maxpool_with_argmax" /\ calls = 1
   /\ AllOnes(dilations) /\ ~ret.force
   /\ (IsMode("VALID") \/ IsMode("SAME_UPPER")))
    => LET native == tf_nn_max_pool_with_argmax(
                       x, kernel_shape, strides,
                       IF IsMode("VALID") THEN "VALID" ELSE "SAME")
       IN /\ ret.status = "ok"
          /\ ret.pooled = [shape |-> native.shape, data |-> native.data]
          /\ ret.ind = native.ind

\* the reduced length of axis i of the (padded) input the reducer read
ReducedLen(i) == LawSize(input_shape[i + 1], i) * kernel_shape[i]
ReducedRan == "output_shape" \in attrs /\ calls = 1
LayoutShape ==
  <<input_shape[1]>> \o [i \in 1..spatial_size |-> ReducedLen(i)]
    \o <<ChannelsOf(input_shape)>>

\* the values _reduce_dilations gathered, read in the layout
\* [L_1, .., L_R, channels]: position (p_1, .., p_R, c) holds
\* input[input_ind(p_1), .., input_ind(p_R), c]
LayoutValues ==
  LET red == reduce_dilations(Self).output
      dims == Dims(LayoutShape)
  IN /\ Len(red.data) = Prod(dims)
     /\ \A n \in 1..Len(red.data) :
          LET p == Unravel(n - 1, dims)
          IN red.data[n]
               = At(input, [i \in 1..(spatial_size + 1) |->
                              IF i <= spatial_size
                              THEN calc_input_ind(p[i], kernel_shape[i],
                                                  dilations[i], strides[i])
                              ELSE p[i]])

\* C13: reduced tensor layout.  The output shape _reduce_dilations records is
\* [batch, L_1, .., L_R, channels] with
\* L_i = (floor((in_size_i - filter_size_i) / stride_i) + 1) * kernel_i in the
\* order of the input's spatial axes, the gathered values are laid out
\* accordingly, and in the 2-D case output_shape[2] is the reduced width.
C13_ReducedLayout ==
  ReducedRan
    => /\ output_shape = LayoutShape
       /\ LayoutValues
       /\ spatial_size = 2 => output_shape[3] = ReducedLen(2)

\* the documented form of the index map
DocumentedInd(ind, k, d, s) == (ind \div k) * s + (ind % k) * d
IndRange == 0..(2 * MaxIn * MaxKernel)

\* C14: index formula equivalence.  For every axis configuration and every
\* ind >= 0, _calc_input_ind(ind, k, d, s) equals
\* (ind // k) * s + (ind % k) * d; for k = 2, d = 2, s = 1 it maps
\* [0, 1, 2, 3] to [0, 2, 1, 3].
C14_IndexFormula ==
  \A i \in 1..spatial_size :
    LET k == kernel_shape[i]
        d == dilations[i]
        s == strides[i]
    IN /\ \A ind \in IndRange :
            calc_input_ind(ind, k, d, s) = DocumentedInd(ind, k, d, s)
       /\ k = 2 /\ d = 2 /\ s = 1
            => [n \in 1..4 |-> calc_input_ind(n - 1, k, d, s)] = <<0, 2, 1, 3>>

\* the reducer ran over an axis with k = 2, d = 2, s = 1 and at least four
\* local indices, and the call returned
C14_Witness ==
  /\ ReducedRan /\ ret.status = "ok"
  /\ \E i \in 1..spatial_size :
       /\ kernel_shape[i] = 2 /\ dilations[i] = 2 /\ strides[i] = 1
       /\ ReducedLen(i) >= 4

\* C15: gather indices stay in bounds.  Whenever the reducer ran, on every
\* axis (whose size is at least the filter size) every local index
\* 0 <= ind < L maps to an input index in 0 .. in_size - 1, and the gather
\* read nothing outside the (padded) input.
C15_GatherInBounds ==
  ReducedRan
    => /\ \A i \in 1..spatial_size :
            /\ input_shape[i + 1] >= Filter(i)
            /\ \A ind \in 0..(ReducedLen(i) - 1) :
                 LET input_ind == calc_input_ind(ind, kernel_shape[i],
                                                 dilations[i], strides[i])
                 IN 0 <= input_ind /\ input_ind <= input_shape[i + 1] - 1
       /\ reduce_dilations(Self).ok

\* the reducer ran over a padded, dilated axis whose last local index maps to
\* the last element of the axis
C15_Witness ==
  /\ ReducedRan /\ ret.status = "ok"
  /\ \E i \in 1..spatial_size :
       /\ dilations[i] > 1 /\ input_shape[i + 1] > OrigSize(i)
       /\ calc_input_ind(ReducedLen(i) - 1, kernel_shape[i], dilations[i],
                         strides[i]) = input_shape[i + 1] - 1

====
